---- MODULE Spec2Model ----
(***************************************************************************)
(* GrTargetCommands (src/src/gpu/GrTargetCommands.cpp): the deferred       *)
(* command recorder of the GPU back end.  Draw requests are recorded as    *)
(* command records in fCmdBuffer, redundant state records are elided,      *)
(* adjacent DrawPaths / DrawBatch requests are folded into the tail        *)
(* record, and flush() replays the buffer against the GrGpu.               *)
(*                                                                         *)
(* A record's address is its position in fCmdBuffer (GrTRecorder appends   *)
(* at the end and pop_back releases the end), so the pointers fPrevState   *)
(* and fDrawBatch are positions, with NULL the null pointer.               *)
(***************************************************************************)
EXTENDS Integers, Sequences, FiniteSets

VARIABLES
    fCmdBuffer,      \* GrTargetCommands::fCmdBuffer: the recorded commands
    fPrevState,      \* GrTargetCommands::fPrevState: SetState* or NULL
    fDrawBatch,      \* GrTargetCommands::fDrawBatch: DrawBatch* or NULL
    poolIndexEnd,    \* first free byte of the path index pool of the draw buffer
    poolXformEnd,    \* first free float of the path transform pool
    useTextBlobs,    \* whether the build defines USE_BITMAP_TEXTBLOBS
    gpuCalls,        \* the calls the latest operation made on GrGpu, the pools, the batch target
    lastOp,          \* the latest operation: its name, request and outcome
    run,             \* the current back-to-back sequence of foldable recordDrawPaths requests
    tracing,         \* whether the draw buffer has active trace markers
    traced,          \* the records with a marker id (Cmd::isTraced)
    stateAt          \* per record, fPrevState when a draw request last landed in it

vars == <<fCmdBuffer, fPrevState, fDrawBatch, poolIndexEnd, poolXformEnd,
          useTextBlobs, gpuCalls, lastOp, run, tracing, traced, stateAt>>

----------------------------------------------------------------------------
(* Bounds of the model. *)

\* longest command buffer explored
MaxCmds == 4
\* largest count of one recordDrawPaths request
MaxCount == 2
\* bytes of the index pool / floats of the transform pool explored
MaxPool == 3
\* most batches folded into one DrawBatch record
MaxCombined == 2
\* most records in the buffer that are no draw and no state (stencil, clear,
\* discard, copy)
MaxOther == 2

----------------------------------------------------------------------------
(* Values. *)

NULL == 0

\* GrPrimitiveProcessor objects (with their batch trackers); NoPrim is the
\* NULL processor of a SetState built for a GrBatch.
NoPrim == "NULL"
PrimProcs == {"procA", "procB"}

\* GrDrawTarget::PipelineInfo values; setupPipeline materializes a GrPipeline.
PipelineInfos == {"infoA", "infoB", "infoSkip"}

PathRanges == {"rangeR", "rangeS"}
Paths == {"pathP"}
Batches == {"batchX"}

\* GrDrawTarget::PathIndexType and PathTransformType
IndexTypes == {"kU8", "kU16"}
TransformTypes == {"kNone", "kTranslateX"}

\* GrStencilSettings used for path stenciling: the pass op of the front face.
kInvert_StencilOp == "kInvert"
kIncClamp_StencilOp == "kIncClamp"
StencilSettingsSet == {[passOp |-> kIncClamp_StencilOp], [passOp |-> kInvert_StencilOp]}

\* The recordDrawPaths requests explored: one winding request and the
\* requests that differ from it in exactly one of the fields compared.
PathsRequest(pathRange, indexType, transformType, passOp) ==
    [pathRange |-> pathRange, indexType |-> indexType,
     transformType |-> transformType, stencilSettings |-> [passOp |-> passOp]]

PathsRequests ==
    {PathsRequest("rangeR", "kU8", "kTranslateX", kIncClamp_StencilOp),
     PathsRequest("rangeS", "kU8", "kTranslateX", kIncClamp_StencilOp),
     PathsRequest("rangeR", "kU16", "kTranslateX", kIncClamp_StencilOp),
     PathsRequest("rangeR", "kU8", "kNone", kIncClamp_StencilOp),
     PathsRequest("rangeR", "kU8", "kTranslateX", kInvert_StencilOp)}

\* GrColor values; GrColor_ILLEGAL is the reserved value recordDiscard stores.
GrColor_ILLEGAL == "GrColor_ILLEGAL"
PMColors == {"opaqueBlack"}

\* render targets with their width and height
RenderTargets == {[name |-> "rt", width |-> 2, height |-> 3]}
\* SkIRect values; NullRect stands for the NULL rect pointer of recordClear
NullRect == [fLeft |-> -1, fTop |-> -1, fRight |-> -1, fBottom |-> -1]
Rects == {[fLeft |-> 0, fTop |-> 0, fRight |-> 1, fBottom |-> 1]}
Points == {[fX |-> 0, fY |-> 0]}
Surfaces == {"surf"}
Scissors == {"scissor"}
ViewMatrices == {"I"}

----------------------------------------------------------------------------
(* Collaborators of the recorder, outside the recorded file. *)

\* GrInOrderDrawBuffer::setupPipeline: the pipeline built from a PipelineInfo
setupPipeline(info) == [id |-> info, skip |-> info = "infoSkip"]

\* GrPipeline::mustSkip
mustSkip(pipeline) == pipeline.skip

\* GrPipeline::isEqual
isEqual(p, q) == p = q

\* GrPrimitiveProcessor::canMakeEqual (on the processors with their trackers)
canMakeEqual(a, b) == a = b

\* GrPathRange::PathIndexSizeInBytes
PathIndexSizeInBytes(indexType) == IF indexType = "kU8" THEN 1 ELSE 2

\* GrPathRendering::PathTransformSize
PathTransformSize(transformType) == IF transformType = "kNone" THEN 0 ELSE 1

----------------------------------------------------------------------------
(* Command records. *)

kSetState_CmdType == "SetState"
kDrawPath_CmdType == "DrawPath"
kDrawPaths_CmdType == "DrawPaths"
kDrawBatch_CmdType == "DrawBatch"
kStencilPath_CmdType == "StencilPath"
kClear_CmdType == "Clear"
kClearStencilClip_CmdType == "ClearStencilClip"
kCopySurface_CmdType == "CopySurface"
kDraw_CmdType == "Draw"

SetState(primProc, pipeline) ==
    [type |-> kSetState_CmdType, fPrimitiveProcessor |-> primProc, pipeline |-> pipeline]

pop_back(buf) == SubSeq(buf, 1, Len(buf) - 1)

back(buf) == buf[Len(buf)]

----------------------------------------------------------------------------
(* The latest operation, kept for the properties: the request as passed in *)
(* and what the recorder did with it.                                      *)

NoOp ==
    [op |-> "none", skipped |-> FALSE, absorbed |-> FALSE, ret |-> NULL,
     primProc |-> NoPrim, info |-> "none",
     pathRange |-> "none", indexType |-> "none", transformType |-> "none",
     stencil |-> [passOp |-> "none"], count |-> 0, blend |-> FALSE,
     combinable |-> FALSE,
     savedIndices |-> NULL, savedTransforms |-> NULL,
     rect |-> "none"]

NoRun == [n |-> 0, sum |-> 0, len |-> 0]

----------------------------------------------------------------------------
(* What a record operation leaves besides the buffer, in terms of the      *)
(* buffer, the active state and the command returned.                      *)

\* GrInOrderDrawBuffer::recordTraceMarkersIfNecessary: with active trace
\* markers, a command gets a marker id.  It is called for a state record
\* that is kept (lines 376 and 399) and, by the draw buffer, for the command
\* a record function returns.
recordTraceMarkersIfNecessary(cmds) ==
    traced' = IF tracing THEN traced \cup (cmds \ {NULL}) ELSE traced

\* the state records kept by the operation
KeptState == IF fPrevState' # fPrevState THEN {fPrevState'} ELSE {}

\* the active state of each record when a draw request last landed in it
\* (NULL for the other records)
LandedWithState ==
    LET n    == Len(fCmdBuffer')
        kept == [i \in 1..n |-> IF i <= Len(stateAt) THEN stateAt[i] ELSE NULL]
    IN  IF /\ lastOp'.op \in {"recordDrawPath", "recordDrawPaths", "recordDrawBatch"}
           /\ ~lastOp'.skipped
        THEN [kept EXCEPT ![n] = fPrevState']
        ELSE kept

AfterRecord ==
    /\ recordTraceMarkersIfNecessary(KeptState \cup {lastOp'.ret})
    /\ stateAt' = LandedWithState
    /\ UNCHANGED tracing

----------------------------------------------------------------------------
(* setupPipelineAndShouldDraw, both overloads.  The result is the buffer,  *)
(* the active state pointer and the boolean the function returns.          *)

\* the test of the batch overload, taken over for a primitive
StateIsRedundant_RequiresNoPrim(buf, prev, primProc, pipeline) ==
    /\ prev # NULL
    /\ buf[prev].fPrimitiveProcessor = NoPrim
    /\ isEqual(buf[prev].pipeline, pipeline)

\* lines 368-372: the candidate repeats the previously active state
StateIsRedundant(buf, prev, primProc, pipeline) ==
    /\ prev # NULL
    /\ buf[prev].fPrimitiveProcessor # NoPrim
    /\ canMakeEqual(buf[prev].fPrimitiveProcessor, primProc)
    /\ isEqual(buf[prev].pipeline, pipeline)

\* lines 394-395: the same for a state built for a batch
BatchStateIsRedundant(buf, prev, pipeline) ==
    /\ prev # NULL
    /\ buf[prev].fPrimitiveProcessor = NoPrim
    /\ isEqual(buf[prev].pipeline, pipeline)

SkipCandidate_KeepsIt(withSS) == withSS

\* lines 360-363 and 387-390: the buffer after a skipped pipeline
SkipCandidate(withSS) == pop_back(withSS)

\* the function without "fPrevState = ss" for a candidate that is kept
setupPipelineAndShouldDraw_ForgetsState(buf, prev, primProc, info) ==
    LET pipeline == setupPipeline(info)
        withSS   == Append(buf, SetState(primProc, pipeline))
    IN  IF mustSkip(pipeline)
        THEN [buf |-> SkipCandidate(withSS), prev |-> prev, draw |-> FALSE]
        ELSE IF StateIsRedundant(buf, prev, primProc, pipeline)
             THEN [buf |-> pop_back(withSS), prev |-> prev, draw |-> TRUE]
             ELSE [buf |-> withSS, prev |-> prev, draw |-> TRUE]

\* lines 354-379
setupPipelineAndShouldDraw(buf, prev, primProc, info) ==
    LET pipeline == setupPipeline(info)
        withSS   == Append(buf, SetState(primProc, pipeline))
        ss       == Len(withSS)
    IN  IF mustSkip(pipeline)
        THEN [buf |-> SkipCandidate(withSS), prev |-> prev, draw |-> FALSE]
        ELSE IF StateIsRedundant(buf, prev, primProc, pipeline)
             THEN [buf |-> pop_back(withSS), prev |-> prev, draw |-> TRUE]
             ELSE [buf |-> withSS, prev |-> ss, draw |-> TRUE]

\* the function without the pop_back of a candidate that repeats the state
setupPipelineAndShouldDrawBatch_KeepsRedundant(buf, prev, info) ==
    LET pipeline == setupPipeline(info)
        withSS   == Append(buf, SetState(NoPrim, pipeline))
        ss       == Len(withSS)
    IN  IF mustSkip(pipeline)
        THEN [buf |-> SkipCandidate(withSS), prev |-> prev, draw |-> FALSE]
        ELSE IF BatchStateIsRedundant(buf, prev, pipeline)
             THEN [buf |-> withSS, prev |-> prev, draw |-> TRUE]
             ELSE [buf |-> withSS, prev |-> ss, draw |-> TRUE]

\* lines 381-402
setupPipelineAndShouldDrawBatch(buf, prev, info) ==
    LET pipeline == setupPipeline(info)
        withSS   == Append(buf, SetState(NoPrim, pipeline))
        ss       == Len(withSS)
    IN  IF mustSkip(pipeline)
        THEN [buf |-> SkipCandidate(withSS), prev |-> prev, draw |-> FALSE]
        ELSE IF BatchStateIsRedundant(buf, prev, pipeline)
             THEN [buf |-> pop_back(withSS), prev |-> prev, draw |-> TRUE]
             ELSE [buf |-> withSS, prev |-> ss, draw |-> TRUE]

----------------------------------------------------------------------------
(* recordDrawPath *)

DrawPathCmd(path, stencilSettings) ==
    [type |-> kDrawPath_CmdType, path |-> path, fStencilSettings |-> stencilSettings]

recordDrawPath ==
    \E primProc \in PrimProcs, info \in PipelineInfos :
        LET st == setupPipelineAndShouldDraw(fCmdBuffer, fPrevState, primProc, info) IN
        /\ Len(fCmdBuffer) + 2 <= MaxCmds
        /\ fPrevState' = st.prev
        /\ IF ~st.draw
           THEN /\ fCmdBuffer' = st.buf
                /\ lastOp' = [NoOp EXCEPT !.op = "recordDrawPath", !.info = info,
                                          !.skipped = TRUE]
           ELSE \E path \in Paths, stencilSettings \in {[passOp |-> kIncClamp_StencilOp]} :
                /\ fCmdBuffer' = Append(st.buf, DrawPathCmd(path, stencilSettings))
                /\ lastOp' = [NoOp EXCEPT !.op = "recordDrawPath", !.primProc = primProc,
                                          !.info = info, !.stencil = stencilSettings,
                                          !.ret = Len(st.buf) + 1]
        /\ run' = NoRun
        /\ gpuCalls' = <<>>
        /\ UNCHANGED <<fDrawBatch, poolIndexEnd, poolXformEnd, useTextBlobs>>
        /\ AfterRecord

----------------------------------------------------------------------------
(* recordDrawPaths *)

path_fill_type_is_winding_Always(pathStencilSettings) == TRUE

\* lines 16-27
path_fill_type_is_winding(pathStencilSettings) ==
    kInvert_StencilOp # pathStencilSettings.passOp

\* GrInOrderDrawBuffer::appendIndicesAndTransforms: the values are copied
\* into the pools at or after their ends; no transform is stored (and the
\* location is NULL) when the transform type has no values.
\* The pool may pad (or start a new block) after the values it already holds.
Padding(poolEnd) == IF poolEnd = 1 THEN {0} ELSE {0, 1}

appendIndices(gap) == poolIndexEnd + gap

appendTransforms(transformType, gap) ==
    IF PathTransformSize(transformType) = 0 THEN NULL ELSE poolXformEnd + gap

DrawPathsCmd(pathRange, savedIndices, indexType, savedTransforms, transformType, count, stencilSettings) ==
    [type |-> kDrawPaths_CmdType, pathRange |-> pathRange,
     fIndices |-> savedIndices, fIndexType |-> indexType,
     fTransforms |-> savedTransforms, fTransformType |-> transformType,
     fCount |-> count, fStencilSettings |-> stencilSettings]

IsContiguous_IndicesOnly(previous, indexType, transformType, savedIndices, savedTransforms) ==
    previous.fIndices + previous.fCount * PathIndexSizeInBytes(indexType) = savedIndices

\* lines 126-128: the new values start where the previous record's end
IsContiguous(previous, indexType, transformType, savedIndices, savedTransforms) ==
    LET indexBytes == PathIndexSizeInBytes(indexType)
        xformSize  == PathTransformSize(transformType)
    IN  /\ previous.fIndices + previous.fCount * indexBytes = savedIndices
        /\ \/ 0 = xformSize
           \/ previous.fTransforms + previous.fCount * xformSize = savedTransforms

\* lines 109-122: the tail record draws the same kind of paths, winding
SameKindOfPaths(buf, pathRange, indexType, transformType, stencilSettings) ==
    /\ kDrawPaths_CmdType = back(buf).type
    /\ pathRange = back(buf).pathRange
    /\ indexType = back(buf).fIndexType
    /\ transformType = back(buf).fTransformType
    /\ stencilSettings = back(buf).fStencilSettings
    /\ path_fill_type_is_winding(stencilSettings)

\* lines 109-128: the request can be folded into the tail record
CanFold(buf, pathRange, indexType, transformType, stencilSettings, blend, savedIndices, savedTransforms) ==
    /\ SameKindOfPaths(buf, pathRange, indexType, transformType, stencilSettings)
    /\ ~blend
    /\ IsContiguous(back(buf), indexType, transformType, savedIndices, savedTransforms)

FoldCount_Overwrites(previousCount, count) == count

\* line 130
FoldCount(previousCount, count) == previousCount + count

\* the request continues the sequence of back-to-back foldable requests
ContinuesRun(req) ==
    /\ run.n > 0
    /\ lastOp.op = "recordDrawPaths" /\ ~lastOp.skipped
    /\ req.pathRange = lastOp.pathRange
    /\ req.indexType = lastOp.indexType
    /\ req.transformType = lastOp.transformType
    /\ req.stencil = lastOp.stencil
    /\ req.stencil.passOp = kIncClamp_StencilOp
    /\ ~req.blend
    /\ req.primProc = lastOp.primProc /\ req.info = lastOp.info
    /\ req.savedIndices =
          lastOp.savedIndices + lastOp.count * PathIndexSizeInBytes(req.indexType)
    /\ req.savedTransforms =
          lastOp.savedTransforms + lastOp.count * PathTransformSize(req.transformType)

recordDrawPaths ==
    \E primProc \in PrimProcs, info \in PipelineInfos :
        LET st == setupPipelineAndShouldDraw(fCmdBuffer, fPrevState, primProc, info) IN
        /\ Len(fCmdBuffer) + 2 <= MaxCmds
        /\ fPrevState' = st.prev
        /\ IF ~st.draw
           THEN /\ fCmdBuffer' = st.buf
                /\ lastOp' = [NoOp EXCEPT !.op = "recordDrawPaths", !.info = info,
                                          !.skipped = TRUE]
                /\ run' = NoRun
                /\ UNCHANGED <<poolIndexEnd, poolXformEnd>>
           ELSE \E paths \in PathsRequests, count \in 1..MaxCount,
                   gapI \in Padding(poolIndexEnd) :
                \E gapX \in IF PathTransformSize(paths.transformType) = 0
                            THEN {0} ELSE Padding(poolXformEnd),
                   \* willBlendWithDst is asked only of a request of the tail's kind
                   blend \in IF SameKindOfPaths(st.buf, paths.pathRange, paths.indexType,
                                                paths.transformType, paths.stencilSettings)
                             THEN BOOLEAN ELSE {FALSE} :
                LET pathRange       == paths.pathRange
                    indexType       == paths.indexType
                    transformType   == paths.transformType
                    stencilSettings == paths.stencilSettings
                    savedIndices    == appendIndices(gapI)
                    savedTransforms == appendTransforms(transformType, gapX)
                    req == [NoOp EXCEPT !.op = "recordDrawPaths", !.primProc = primProc,
                                        !.info = info, !.pathRange = pathRange,
                                        !.indexType = indexType,
                                        !.transformType = transformType,
                                        !.stencil = stencilSettings, !.count = count,
                                        !.blend = blend,
                                        !.savedIndices = savedIndices,
                                        !.savedTransforms = savedTransforms]
                IN
                /\ savedIndices + count * PathIndexSizeInBytes(indexType) <= MaxPool + 1
                /\ poolXformEnd + gapX + count * PathTransformSize(transformType)
                       <= MaxPool + 1
                /\ poolIndexEnd' = savedIndices + count * PathIndexSizeInBytes(indexType)
                /\ poolXformEnd' =
                       IF savedTransforms = NULL THEN poolXformEnd
                       ELSE savedTransforms + count * PathTransformSize(transformType)
                /\ IF CanFold(st.buf, pathRange, indexType, transformType,
                              stencilSettings, blend, savedIndices, savedTransforms)
                   THEN /\ fCmdBuffer' =
                              [st.buf EXCEPT ![Len(st.buf)].fCount = FoldCount(@, count)]
                        /\ lastOp' = [req EXCEPT !.absorbed = TRUE]
                        /\ run' = IF ContinuesRun(req)
                                  THEN [run EXCEPT !.n = @ + 1, !.sum = @ + count]
                                  ELSE NoRun
                   ELSE /\ fCmdBuffer' =
                              Append(st.buf,
                                     DrawPathsCmd(pathRange, savedIndices, indexType,
                                                  savedTransforms, transformType,
                                                  count, stencilSettings))
                        /\ lastOp' = [req EXCEPT !.ret = Len(st.buf) + 1]
                        /\ run' = IF ContinuesRun(req)
                                  THEN [run EXCEPT !.n = @ + 1, !.sum = @ + count]
                                  ELSE IF req.stencil.passOp = kIncClamp_StencilOp
                                       THEN [n |-> 1, sum |-> count, len |-> Len(st.buf) + 1]
                                       ELSE NoRun
        /\ gpuCalls' = <<>>
        /\ UNCHANGED <<fDrawBatch, useTextBlobs>>
        /\ AfterRecord

----------------------------------------------------------------------------
(* recordDrawBatch *)

\* a GrBatch: the batches folded into it and GrBatch::fNumberOfDraws
NewBatch(batch) == [id |-> batch, combined |-> 1, fNumberOfDraws |-> 0]

DrawBatchCmd(batch) == [type |-> kDrawBatch_CmdType, fBatch |-> NewBatch(batch)]

NoBatchToCombine_And(buf, drawBatch) ==
    kDrawBatch_CmdType # back(buf).type /\ drawBatch = NULL

\* line 38: there is no batch draw to batch with
NoBatchToCombine(buf, drawBatch) ==
    kDrawBatch_CmdType # back(buf).type \/ drawBatch = NULL

\* GrBatch::combineIfPossible, when it succeeds: the tracked batch takes the other in
combineInto(buf, drawBatch) == [buf EXCEPT ![drawBatch].fBatch.combined = @ + 1]

recordDrawBatch ==
    \E batch \in Batches, info \in PipelineInfos, combinable \in BOOLEAN :
        LET st == setupPipelineAndShouldDrawBatch(fCmdBuffer, fPrevState, info) IN
        /\ Len(fCmdBuffer) + 2 <= MaxCmds
        /\ IF ~st.draw
           THEN /\ fCmdBuffer' = st.buf
                /\ fPrevState' = st.prev
                /\ fDrawBatch' = fDrawBatch
                /\ lastOp' = [NoOp EXCEPT !.op = "recordDrawBatch", !.info = info,
                                          !.skipped = TRUE]
           ELSE /\ fPrevState' = st.prev
                /\ IF NoBatchToCombine(st.buf, fDrawBatch) \/ ~combinable
                   THEN /\ fCmdBuffer' = Append(st.buf, DrawBatchCmd(batch))
                        /\ fDrawBatch' = Len(st.buf) + 1
                        /\ lastOp' = [NoOp EXCEPT !.op = "recordDrawBatch", !.info = info,
                                                  !.combinable = combinable,
                                                  !.ret = Len(st.buf) + 1]
                   ELSE /\ st.buf[fDrawBatch].fBatch.combined < MaxCombined
                        /\ fCmdBuffer' = combineInto(st.buf, fDrawBatch)
                        /\ fDrawBatch' = fDrawBatch
                        /\ lastOp' = [NoOp EXCEPT !.op = "recordDrawBatch", !.info = info,
                                                  !.combinable = combinable,
                                                  !.absorbed = TRUE, !.ret = fDrawBatch]
        /\ run' = NoRun
        /\ gpuCalls' = <<>>
        /\ UNCHANGED <<poolIndexEnd, poolXformEnd, useTextBlobs>>
        /\ AfterRecord

----------------------------------------------------------------------------
(* recordStencilPath, recordClear, recordClearStencilClip, recordDiscard,  *)
(* recordCopySurface                                                       *)

IsOther(cmd) ==
    cmd.type \in {kStencilPath_CmdType, kClear_CmdType, kClearStencilClip_CmdType,
                  kCopySurface_CmdType}

\* an append that leaves out a record equal to the tail
AppendCmd_MergesIntoTail(cmd, name, rect) ==
    /\ Len(fCmdBuffer) + 1 <= MaxCmds
    /\ Cardinality({i \in 1..Len(fCmdBuffer) : IsOther(fCmdBuffer[i])}) < MaxOther
    /\ IF fCmdBuffer # <<>> /\ back(fCmdBuffer) = cmd
       THEN /\ fCmdBuffer' = fCmdBuffer
            /\ lastOp' = [NoOp EXCEPT !.op = name, !.rect = rect, !.ret = Len(fCmdBuffer)]
       ELSE /\ fCmdBuffer' = Append(fCmdBuffer, cmd)
            /\ lastOp' = [NoOp EXCEPT !.op = name, !.rect = rect,
                                      !.ret = Len(fCmdBuffer) + 1]
    /\ run' = NoRun
    /\ gpuCalls' = <<>>
    /\ UNCHANGED <<fPrevState, fDrawBatch, poolIndexEnd, poolXformEnd, useTextBlobs>>
    /\ AfterRecord

\* GrNEW_APPEND_TO_RECORDER of a record that needs no state
AppendCmd(cmd, name, rect) ==
    /\ Len(fCmdBuffer) + 1 <= MaxCmds
    /\ Cardinality({i \in 1..Len(fCmdBuffer) : IsOther(fCmdBuffer[i])}) < MaxOther
    /\ fCmdBuffer' = Append(fCmdBuffer, cmd)
    /\ lastOp' = [NoOp EXCEPT !.op = name, !.rect = rect, !.ret = Len(fCmdBuffer) + 1]
    /\ run' = NoRun
    /\ gpuCalls' = <<>>
    /\ UNCHANGED <<fPrevState, fDrawBatch, poolIndexEnd, poolXformEnd, useTextBlobs>>
    /\ AfterRecord

\* recordStencilPath setting up the pipeline first, as the draws do
recordStencilPath_ResolvesState ==
    \E primProc \in PrimProcs, info \in PipelineInfos, path \in Paths,
       renderTarget \in RenderTargets, scissorState \in Scissors,
       viewMatrix \in ViewMatrices :
        LET st == setupPipelineAndShouldDraw(fCmdBuffer, fPrevState, primProc, info) IN
        /\ Len(fCmdBuffer) + 2 <= MaxCmds
        /\ fPrevState' = st.prev
        /\ IF ~st.draw
           THEN /\ fCmdBuffer' = st.buf
                /\ lastOp' = [NoOp EXCEPT !.op = "recordStencilPath", !.info = info,
                                          !.skipped = TRUE]
           ELSE /\ fCmdBuffer' =
                      Append(st.buf,
                             [type |-> kStencilPath_CmdType, path |-> path,
                              renderTarget |-> renderTarget, fScissor |-> scissorState,
                              fUseHWAA |-> FALSE, fViewMatrix |-> viewMatrix,
                              fStencil |-> [passOp |-> kIncClamp_StencilOp]])
                /\ lastOp' = [NoOp EXCEPT !.op = "recordStencilPath",
                                          !.ret = Len(st.buf) + 1]
        /\ run' = NoRun
        /\ gpuCalls' = <<>>
        /\ UNCHANGED <<fDrawBatch, poolIndexEnd, poolXformEnd, useTextBlobs>>
        /\ AfterRecord

\* lines 51-66
recordStencilPath ==
    \E path \in Paths, renderTarget \in RenderTargets, scissorState \in Scissors,
       hwaa \in {FALSE}, viewMatrix \in ViewMatrices,
       stencilSettings \in {[passOp |-> kIncClamp_StencilOp]} :
        AppendCmd([type |-> kStencilPath_CmdType, path |-> path,
                   renderTarget |-> renderTarget, fScissor |-> scissorState,
                   fUseHWAA |-> hwaa, fViewMatrix |-> viewMatrix,
                   fStencil |-> stencilSettings],
                  "recordStencilPath", "none")

\* the rect with the target's width and height taken for each other
ClearRect_Swapped(rect, renderTarget) ==
    IF rect = NullRect
    THEN [fLeft |-> 0, fTop |-> 0,
          fRight |-> renderTarget.height, fBottom |-> renderTarget.width]
    ELSE rect

\* lines 153-160: the rect of a clear, the whole target when none is given
ClearRect(rect, renderTarget) ==
    IF rect = NullRect
    THEN [fLeft |-> 0, fTop |-> 0,
          fRight |-> renderTarget.width, fBottom |-> renderTarget.height]
    ELSE rect

recordClear ==
    \E rect \in Rects \cup {NullRect}, color \in PMColors, canIgnoreRect \in {FALSE},
       renderTarget \in RenderTargets :
        AppendCmd([type |-> kClear_CmdType, renderTarget |-> renderTarget,
                   fColor |-> color, fRect |-> ClearRect(rect, renderTarget),
                   fCanIgnoreRect |-> canIgnoreRect],
                  "recordClear", rect)

recordClearStencilClip ==
    \E rect \in Rects, insideClip \in {TRUE}, renderTarget \in RenderTargets :
        AppendCmd([type |-> kClearStencilClip_CmdType, renderTarget |-> renderTarget,
                   fRect |-> rect, fInsideClip |-> insideClip],
                  "recordClearStencilClip", rect)

\* fRect and fCanIgnoreRect of the record are left as constructed: any value
recordDiscard ==
    \E renderTarget \in RenderTargets, garbageRect \in Rects, garbageFlag \in {FALSE} :
        AppendCmd([type |-> kClear_CmdType, renderTarget |-> renderTarget,
                   fColor |-> GrColor_ILLEGAL, fRect |-> garbageRect,
                   fCanIgnoreRect |-> garbageFlag],
                  "recordDiscard", "none")

recordCopySurface ==
    \E dst \in Surfaces, src \in Surfaces, srcRect \in Rects, dstPoint \in Points :
        AppendCmd([type |-> kCopySurface_CmdType, dst |-> dst, src |-> src,
                   fSrcRect |-> srcRect, fDstPoint |-> dstPoint],
                  "recordCopySurface", srcRect)

----------------------------------------------------------------------------
(* reset *)

\* reset without "fDrawBatch = NULL"
reset_KeepsBatch ==
    /\ fCmdBuffer' = <<>>
    /\ fPrevState' = NULL
    /\ fDrawBatch' = fDrawBatch

\* lines 190-194
reset ==
    /\ fCmdBuffer' = <<>>
    /\ fPrevState' = NULL
    /\ fDrawBatch' = NULL

\* GrInOrderDrawBuffer::onReset rewinds its path pools
rewindPools ==
    /\ poolIndexEnd' = 1
    /\ poolXformEnd' = 1

\* GrInOrderDrawBuffer::onReset, the caller of reset()
onReset ==
    /\ reset
    /\ rewindPools
    /\ lastOp' = [NoOp EXCEPT !.op = "reset"]
    /\ run' = NoRun
    /\ gpuCalls' = <<>>
    /\ traced' = {}
    /\ stateAt' = <<>>
    /\ UNCHANGED <<useTextBlobs, tracing>>

----------------------------------------------------------------------------
(* flush.  A call is logged with the pass that made it, the record it was  *)
(* made for (0 when for none), the record itself and the state pointer     *)
(* handed to the record's execute.                                         *)

NoCmd == [type |-> "none"]

Call(pass, name, i, cmd, state) ==
    [pass |-> pass, call |-> name, cmd |-> i, rec |-> cmd, state |-> state]

\* lines 320-326
SetState_execute(pass, i, cmd, state) ==
    IF cmd.fPrimitiveProcessor # NoPrim
    THEN <<Call(pass, "buildProgramDesc", i, cmd, state)>>
    ELSE <<>>

Clear_execute_AlwaysClears(pass, i, cmd, state) ==
    <<[pass |-> pass, call |-> "clear", cmd |-> i, rec |-> cmd, state |-> state]>>

\* lines 328-334
Clear_execute(pass, i, cmd, state) ==
    IF GrColor_ILLEGAL = cmd.fColor
    THEN <<Call(pass, "discard", i, cmd, state)>>
    ELSE <<Call(pass, "clear", i, cmd, state)>>

\* lines 280-318 and 336-342: Cmd::execute of the other kinds
Cmd_execute(pass, i, cmd, state) ==
    CASE cmd.type = kDraw_CmdType             -> <<Call(pass, "draw", i, cmd, state)>>
      [] cmd.type = kStencilPath_CmdType      -> <<Call(pass, "stencilPath", i, cmd, state)>>
      [] cmd.type = kDrawPath_CmdType         -> <<Call(pass, "drawPath", i, cmd, state)>>
      [] cmd.type = kDrawPaths_CmdType        -> <<Call(pass, "drawPaths", i, cmd, state)>>
      [] cmd.type = kDrawBatch_CmdType        -> <<Call(pass, "generateGeometry", i, cmd, state)>>
      [] cmd.type = kSetState_CmdType         -> SetState_execute(pass, i, cmd, state)
      [] cmd.type = kClear_CmdType            -> Clear_execute(pass, i, cmd, state)
      [] cmd.type = kClearStencilClip_CmdType -> <<Call(pass, "clearStencilClip", i, cmd, state)>>
      [] cmd.type = kCopySurface_CmdType      -> <<Call(pass, "copySurface", i, cmd, state)>>

\* GrBatch::generateGeometry on the batch target: the draws it issues
numberOfDraws(batch) == batch.combined

\* the pass, executing every record it meets
RECURSIVE GenPass_ExecutesAll(_, _, _)
GenPass_ExecutesAll(buf, i, currentState) ==
    IF i > Len(buf)
    THEN [calls |-> <<>>, buf |-> buf, currentState |-> currentState]
    ELSE IF kDrawBatch_CmdType = buf[i].type
         THEN LET rest == GenPass_ExecutesAll(
                              [buf EXCEPT ![i].fBatch.fNumberOfDraws =
                                              numberOfDraws(buf[i].fBatch)],
                              i + 1, currentState)
              IN  [rest EXCEPT !.calls =
                       Cmd_execute("gen", i, buf[i], currentState) \o @]
         ELSE IF kSetState_CmdType = buf[i].type
              THEN LET rest == GenPass_ExecutesAll(buf, i + 1, i)
                   IN  [rest EXCEPT !.calls =
                            SetState_execute("gen", i, buf[i], currentState) \o @]
              ELSE LET rest == GenPass_ExecutesAll(buf, i + 1, currentState)
                   IN  [rest EXCEPT !.calls =
                            Cmd_execute("gen", i, buf[i], currentState) \o @]

\* the pass, generating the geometry of a batch only the first time
RECURSIVE GenPass_OncePerBatch(_, _, _)
GenPass_OncePerBatch(buf, i, currentState) ==
    IF i > Len(buf)
    THEN [calls |-> <<>>, buf |-> buf, currentState |-> currentState]
    ELSE IF kDrawBatch_CmdType = buf[i].type
         THEN IF buf[i].fBatch.fNumberOfDraws # 0
              THEN GenPass_OncePerBatch(buf, i + 1, currentState)
              ELSE LET rest == GenPass_OncePerBatch(
                                   [buf EXCEPT ![i].fBatch.fNumberOfDraws =
                                                   numberOfDraws(buf[i].fBatch)],
                                   i + 1, currentState)
                   IN  [rest EXCEPT !.calls =
                            Cmd_execute("gen", i, buf[i], currentState) \o @]
         ELSE IF kSetState_CmdType = buf[i].type
              THEN LET rest == GenPass_OncePerBatch(buf, i + 1, i)
                   IN  [rest EXCEPT !.calls =
                            SetState_execute("gen", i, buf[i], currentState) \o @]
              ELSE GenPass_OncePerBatch(buf, i + 1, currentState)

\* lines 209-222: the pass that generates the geometry of the batches, from
\* record i on; the result is the calls made, the records (the batches get
\* their number of draws) and the current state after the pass.
RECURSIVE GenPass(_, _, _)
GenPass(buf, i, currentState) ==
    IF i > Len(buf)
    THEN [calls |-> <<>>, buf |-> buf, currentState |-> currentState]
    ELSE IF kDrawBatch_CmdType = buf[i].type
         THEN LET rest == GenPass([buf EXCEPT ![i].fBatch.fNumberOfDraws =
                                                   numberOfDraws(buf[i].fBatch)],
                                  i + 1, currentState)
              IN  [rest EXCEPT !.calls =
                       Cmd_execute("gen", i, buf[i], currentState) \o @]
         ELSE IF kSetState_CmdType = buf[i].type
              THEN LET rest == GenPass(buf, i + 1, i)
                   IN  [rest EXCEPT !.calls =
                            SetState_execute("gen", i, buf[i], currentState) \o @]
              ELSE GenPass(buf, i + 1, currentState)

\* lines 232-238 and 245-247, 271-273: the calls made for record i, between
\* the marker calls when the record is traced
Marked(i, calls) ==
    IF i \in traced
    THEN <<Call("trace", "addGpuTraceMarker", i, NoCmd, NULL)>>
         \o calls
         \o <<Call("trace", "removeGpuTraceMarker", i, NoCmd, NULL)>>
    ELSE calls

\* the main pass without the "continue" after a batch is flushed
RECURSIVE MainPass_ExecutesBatch(_, _, _)
MainPass_ExecutesBatch(buf, i, currentState) ==
    IF i > Len(buf)
    THEN <<>>
    ELSE IF kSetState_CmdType = buf[i].type
         THEN Marked(i, SetState_execute("main", i, buf[i], currentState))
              \o MainPass_ExecutesBatch(buf, i + 1, i)
         ELSE Marked(i, (IF kDrawBatch_CmdType = buf[i].type
                         THEN <<Call("main", "flushNext", i, buf[i], currentState)>>
                         ELSE <<>>)
                        \o Cmd_execute("main", i, buf[i], currentState))
              \o MainPass_ExecutesBatch(buf, i + 1, currentState)

\* the main pass without "currentState = ss"
RECURSIVE MainPass_KeepsState(_, _, _)
MainPass_KeepsState(buf, i, currentState) ==
    IF i > Len(buf)
    THEN <<>>
    ELSE IF kDrawBatch_CmdType = buf[i].type
         THEN Marked(i, <<Call("main", "flushNext", i, buf[i], currentState)>>)
              \o MainPass_KeepsState(buf, i + 1, currentState)
         ELSE IF kSetState_CmdType = buf[i].type
              THEN Marked(i, SetState_execute("main", i, buf[i], currentState))
                   \o MainPass_KeepsState(buf, i + 1, currentState)
              ELSE Marked(i, Cmd_execute("main", i, buf[i], currentState))
                   \o MainPass_KeepsState(buf, i + 1, currentState)

\* the main pass with a "continue" after a batch that skips the marker's removal
RECURSIVE MainPass_LeavesBatchMarker(_, _, _)
MainPass_LeavesBatchMarker(buf, i, currentState) ==
    IF i > Len(buf)
    THEN <<>>
    ELSE IF kDrawBatch_CmdType = buf[i].type
         THEN (IF i \in traced
               THEN <<Call("trace", "addGpuTraceMarker", i, NoCmd, NULL)>>
               ELSE <<>>)
              \o <<Call("main", "flushNext", i, buf[i], currentState)>>
              \o MainPass_LeavesBatchMarker(buf, i + 1, currentState)
         ELSE IF kSetState_CmdType = buf[i].type
              THEN Marked(i, SetState_execute("main", i, buf[i], currentState))
                   \o MainPass_LeavesBatchMarker(buf, i + 1, i)
              ELSE Marked(i, Cmd_execute("main", i, buf[i], currentState))
                   \o MainPass_LeavesBatchMarker(buf, i + 1, currentState)

\* lines 229-274: the main pass, from record i on
RECURSIVE MainPass(_, _, _)
MainPass(buf, i, currentState) ==
    IF i > Len(buf)
    THEN <<>>
    ELSE IF kDrawBatch_CmdType = buf[i].type
         THEN Marked(i, <<Call("main", "flushNext", i, buf[i], currentState)>>)
              \o MainPass(buf, i + 1, currentState)
         ELSE IF kSetState_CmdType = buf[i].type
              THEN Marked(i, SetState_execute("main", i, buf[i], currentState))
                   \o MainPass(buf, i + 1, i)
              ELSE Marked(i, Cmd_execute("main", i, buf[i], currentState))
                   \o MainPass(buf, i + 1, currentState)

FlushReturnsEarly_Never(buf) == FALSE

\* lines 197-199
FlushReturnsEarly(buf) == buf = <<>>

\* a flush that resets the recorder once the records are executed
flush_ThenResets ==
    /\ IF FlushReturnsEarly(fCmdBuffer)
       THEN gpuCalls' = <<>>
       ELSE LET gen == IF useTextBlobs
                       THEN GenPass(fCmdBuffer, 1, NULL)
                       ELSE [calls |-> <<>>, buf |-> fCmdBuffer, currentState |-> NULL]
            IN  gpuCalls' =
                    gen.calls
                    \o <<Call("pre", "unmapVertexPool", 0, NoCmd, NULL),
                         Call("pre", "unmapIndexPool", 0, NoCmd, NULL),
                         Call("pre", "preFlush", 0, NoCmd, NULL)>>
                    \o MainPass(gen.buf, 1, gen.currentState)
                    \o <<Call("post", "postFlush", 0, NoCmd, NULL)>>
    /\ reset
    /\ traced' = {}
    /\ stateAt' = <<>>
    /\ lastOp' = [NoOp EXCEPT !.op = "flush"]
    /\ run' = NoRun
    /\ UNCHANGED <<poolIndexEnd, poolXformEnd, useTextBlobs, tracing>>

\* lines 196-278
flush ==
    /\ IF FlushReturnsEarly(fCmdBuffer)
       THEN /\ gpuCalls' = <<>>
            /\ fCmdBuffer' = fCmdBuffer
       ELSE LET gen == IF useTextBlobs
                       THEN GenPass(fCmdBuffer, 1, NULL)
                       ELSE [calls |-> <<>>, buf |-> fCmdBuffer, currentState |-> NULL]
            IN  /\ gpuCalls' =
                      gen.calls
                      \o <<Call("pre", "unmapVertexPool", 0, NoCmd, NULL),
                           Call("pre", "unmapIndexPool", 0, NoCmd, NULL),
                           Call("pre", "preFlush", 0, NoCmd, NULL)>>
                      \o MainPass(gen.buf, 1, gen.currentState)
                      \o <<Call("post", "postFlush", 0, NoCmd, NULL)>>
                /\ fCmdBuffer' = gen.buf
    /\ lastOp' = [NoOp EXCEPT !.op = "flush"]
    /\ run' = NoRun
    /\ UNCHANGED <<fPrevState, fDrawBatch, poolIndexEnd, poolXformEnd, useTextBlobs,
                   tracing, traced, stateAt>>

----------------------------------------------------------------------------
(* The recorder after construction, in either build. *)

Init ==
    /\ fCmdBuffer = <<>>
    /\ fPrevState = NULL
    /\ fDrawBatch = NULL
    /\ poolIndexEnd = 1
    /\ poolXformEnd = 1
    /\ useTextBlobs \in BOOLEAN
    /\ gpuCalls = <<>>
    /\ lastOp = NoOp
    /\ run = NoRun
    /\ tracing = FALSE
    /\ traced = {}
    /\ stateAt = <<>>

Next ==
    \/ recordDrawBatch
    \/ recordStencilPath
    \/ recordDrawPath
    \/ recordDrawPaths
    \/ recordClear
    \/ recordClearStencilClip
    \/ recordDiscard
    \/ recordCopySurface
    \/ onReset
    \/ flush

Spec == Init /\ [][Next]_vars

\* GrDrawTarget::addGpuTraceMarker / removeGpuTraceMarker on the draw buffer:
\* the set of active trace markers becomes non-empty or empty
setActiveTraceMarkers ==
    /\ tracing' = ~tracing
    /\ UNCHANGED <<fCmdBuffer, fPrevState, fDrawBatch, poolIndexEnd, poolXformEnd,
                   useTextBlobs, gpuCalls, lastOp, run, traced, stateAt>>

NextTraced ==
    \/ Next
    \/ setActiveTraceMarkers

\* the recorder of a draw buffer whose client uses trace markers
SpecTraced == Init /\ [][NextTraced]_vars

----------------------------------------------------------------------------
(* Properties. *)

Positions(buf, type) == {i \in 1..Len(buf) : buf[i].type = type}

Recorded(name) == lastOp.op = name /\ ~lastOp.skipped

Recorded_(name) == lastOp'.op = name /\ ~lastOp'.skipped

\* C1: a back-to-back sequence of recordDrawPaths requests of the same path
\* range, index type, transform type and winding stencil settings, none
\* blending, each with the state of the one before and with its values stored
\* right after those of the one before, leaves one DrawPaths record (the one
\* its first request opened, still the tail) whose count is the sum of the
\* counts of the requests.
C1_FoldedCountIsSum ==
    run.n > 0 =>
        /\ Len(fCmdBuffer) = run.len
        /\ back(fCmdBuffer).type = kDrawPaths_CmdType
        /\ back(fCmdBuffer).fCount = run.sum

C1_Witness ==
    /\ run.n >= 2
    /\ run.sum = 3
    /\ lastOp.count = 2
    /\ lastOp.transformType = "kTranslateX"
    /\ back(fCmdBuffer).fCount = 3

\* C2: an even-odd recordDrawPaths request that is not skipped appends its
\* own DrawPaths record with the request's count, whatever the tail is, and
\* no later step changes an even-odd DrawPaths record while it is in the
\* buffer.
C2_EvenOddNeverFolds ==
    [][ /\ (Recorded_("recordDrawPaths") /\ lastOp'.stencil.passOp = kInvert_StencilOp)
            => /\ Len(fCmdBuffer') > Len(fCmdBuffer)
               /\ SubSeq(fCmdBuffer', 1, Len(fCmdBuffer)) = fCmdBuffer
               /\ back(fCmdBuffer').type = kDrawPaths_CmdType
               /\ back(fCmdBuffer').fStencilSettings.passOp = kInvert_StencilOp
               /\ back(fCmdBuffer').fCount = lastOp'.count
               /\ lastOp'.ret = Len(fCmdBuffer')
        /\ lastOp'.op # "reset"
            => \A i \in Positions(fCmdBuffer, kDrawPaths_CmdType) :
                  fCmdBuffer[i].fStencilSettings.passOp = kInvert_StencilOp
                      => /\ i <= Len(fCmdBuffer')
                         /\ fCmdBuffer'[i] = fCmdBuffer[i]
      ]_vars

\* an even-odd request right after an even-odd record of the same range and
\* types, not blending, its values right after the record's
C2_Witness ==
    /\ Recorded("recordDrawPaths")
    /\ lastOp.stencil.passOp = kInvert_StencilOp
    /\ ~lastOp.blend
    /\ Len(fCmdBuffer) >= 3
    /\ LET previous == fCmdBuffer[Len(fCmdBuffer) - 1] IN
       /\ previous.type = kDrawPaths_CmdType
       /\ previous.pathRange = lastOp.pathRange
       /\ previous.fIndexType = lastOp.indexType
       /\ previous.fTransformType = lastOp.transformType
       /\ previous.fStencilSettings = lastOp.stencil
       /\ IsContiguous(previous, lastOp.indexType, lastOp.transformType,
                       lastOp.savedIndices, lastOp.savedTransforms)

\* the two latest requests are draws with equal pipelines and interchangeable
\* primitives (or both without a primitive)
IsDrawRequest(op) ==
    /\ op.op \in {"recordDrawPath", "recordDrawPaths", "recordDrawBatch"}
    /\ ~op.skipped

SameConfiguration(a, b) ==
    /\ isEqual(setupPipeline(a.info), setupPipeline(b.info))
    /\ \/ a.primProc = NoPrim /\ b.primProc = NoPrim
       \/ /\ a.primProc # NoPrim /\ b.primProc # NoPrim
          /\ canMakeEqual(a.primProc, b.primProc)

NoAdjacentEqualStates ==
    \A i \in 1..(Len(fCmdBuffer) - 1) :
        (fCmdBuffer[i].type = kSetState_CmdType
            /\ fCmdBuffer[i + 1].type = kSetState_CmdType)
        => ~SameConfiguration(
               [primProc |-> fCmdBuffer[i].fPrimitiveProcessor,
                info |-> fCmdBuffer[i].pipeline.id],
               [primProc |-> fCmdBuffer[i + 1].fPrimitiveProcessor,
                info |-> fCmdBuffer[i + 1].pipeline.id])

\* C3: the second of two consecutive draw requests of equal configuration
\* leaves no state record of its own: both draw under the one state record
\* fPrevState, which is the last state record of the buffer; and in no buffer
\* are two adjacent records state records of equal configurations.
C3_OneStateForEqualRequests ==
    /\ []NoAdjacentEqualStates
    /\ [][ (IsDrawRequest(lastOp) /\ IsDrawRequest(lastOp')
              /\ SameConfiguration(lastOp, lastOp'))
           => /\ Cardinality(Positions(fCmdBuffer', kSetState_CmdType))
                    = Cardinality(Positions(fCmdBuffer, kSetState_CmdType))
              /\ fPrevState' = fPrevState
              /\ fPrevState # NULL
              /\ Positions(fCmdBuffer', kSetState_CmdType)
                    \cap (fPrevState..Len(fCmdBuffer')) = {fPrevState}
         ]_vars

\* two draws of one configuration under one state record, after a draw of
\* another configuration
C3_Witness ==
    /\ Recorded("recordDrawPaths")
    /\ Len(fCmdBuffer) = 3
    /\ fCmdBuffer[1].type = kSetState_CmdType
    /\ fCmdBuffer[1].fPrimitiveProcessor = lastOp.primProc
    /\ fCmdBuffer[1].pipeline.id = lastOp.info
    /\ fCmdBuffer[2].type = kDrawPath_CmdType
    /\ fCmdBuffer[3].type = kDrawPaths_CmdType
    /\ fPrevState = 1

----------------------------------------------------------------------------
(* Properties of flush. *)

CallsOfPass(pass) == SelectSeq(gpuCalls, LAMBDA c : c.pass = pass)

CallsFor(i) == SelectSeq(gpuCalls, LAMBDA c : c.pass = "main" /\ c.cmd = i)

DrawFamily ==
    {kDraw_CmdType, kStencilPath_CmdType, kDrawPath_CmdType, kDrawPaths_CmdType,
     kDrawBatch_CmdType}

\* the dispatch of the main pass for a record of the draw family
DrawDispatch(type) ==
    CASE type = kDraw_CmdType        -> "draw"
      [] type = kStencilPath_CmdType -> "stencilPath"
      [] type = kDrawPath_CmdType    -> "drawPath"
      [] type = kDrawPaths_CmdType   -> "drawPaths"
      [] type = kDrawBatch_CmdType   -> "flushNext"
      [] OTHER                       -> "none"

DrawDispatches == {DrawDispatch(t) : t \in DrawFamily}

Flushed == lastOp.op = "flush" /\ fCmdBuffer # <<>>

\* C4: the main pass of flush handles the records in buffer order, each once
\* (a state record without a primitive makes no call): the records of its
\* calls are increasing positions, every record other than such a state
\* record has exactly one call, and the draw-family dispatches of the flush
\* are as many as the draw-family records, each the dispatch of its record.
C4_FlushInRecordedOrder ==
    Flushed =>
        LET main == CallsOfPass("main") IN
        /\ \A k \in 1..(Len(main) - 1) : main[k].cmd < main[k + 1].cmd
        /\ {main[k].cmd : k \in 1..Len(main)}
              = {i \in 1..Len(fCmdBuffer) :
                    ~(fCmdBuffer[i].type = kSetState_CmdType
                        /\ fCmdBuffer[i].fPrimitiveProcessor = NoPrim)}
        /\ \A k \in 1..Len(main) :
              /\ main[k].rec = fCmdBuffer[main[k].cmd]
              /\ main[k].rec.type \in DrawFamily
                    => main[k].call = DrawDispatch(main[k].rec.type)
        /\ Cardinality({k \in 1..Len(gpuCalls) : gpuCalls[k].call \in DrawDispatches})
              = Cardinality({i \in 1..Len(fCmdBuffer) : fCmdBuffer[i].type \in DrawFamily})

C4_Witness ==
    /\ Flushed
    /\ Len(fCmdBuffer) = 4
    /\ fCmdBuffer[2].type = kDrawBatch_CmdType
    /\ fCmdBuffer[4].type = kDrawPaths_CmdType
    /\ fCmdBuffer[4].fCount = 2
    /\ Len(CallsOfPass("main")) = 3

\* C5: reset empties the buffer, and a flush of an empty buffer makes no
\* call at all (none on the GrGpu, the pools or the batch target) and changes
\* nothing.
C5_FlushOfEmptyBufferIsNoop ==
    /\ [](lastOp.op = "reset" => fCmdBuffer = <<>>)
    /\ [][ (lastOp'.op = "flush" /\ fCmdBuffer = <<>>)
           => /\ gpuCalls' = <<>>
              /\ UNCHANGED <<fCmdBuffer, fPrevState, fDrawBatch, poolIndexEnd,
                             poolXformEnd>>
         ]_vars

C5_Witness ==
    /\ lastOp.op = "flush"
    /\ fCmdBuffer = <<>>
    /\ gpuCalls = <<>>
    /\ fPrevState = NULL

\* C6: a draw request whose pipeline must be skipped returns no command and
\* leaves the buffer, the active state pointer, the tracked batch and the
\* path pools as they were.
C6_SkipLeavesRecorderUnchanged ==
    [][ (lastOp'.op \in {"recordDrawPath", "recordDrawPaths", "recordDrawBatch"}
            /\ mustSkip(setupPipeline(lastOp'.info)))
        => /\ lastOp'.skipped
           /\ lastOp'.ret = NULL
           /\ fCmdBuffer' = fCmdBuffer
           /\ fPrevState' = fPrevState
           /\ fDrawBatch' = fDrawBatch
           /\ poolIndexEnd' = poolIndexEnd
           /\ poolXformEnd' = poolXformEnd
      ]_vars

C6_Witness ==
    /\ lastOp.op = "recordDrawPaths"
    /\ lastOp.skipped
    /\ lastOp.ret = NULL
    /\ Len(fCmdBuffer) = 2
    /\ back(fCmdBuffer).type = kDrawPaths_CmdType
    /\ back(fCmdBuffer).fCount = 2
    /\ fPrevState = 1
    /\ poolIndexEnd > 1

\* C7: a recordDrawBatch that is not skipped appends one DrawBatch record,
\* which becomes the tracked batch, unless the tail (after the state was
\* set up) is a DrawBatch record, a batch is tracked and the tracked batch
\* takes the new one in: then nothing is appended and the tracked batch, the
\* tail, is returned.
C7_DrawBatchAppendsOrCombines ==
    [][ Recorded_("recordDrawBatch") =>
        LET tailIsBatch ==
                /\ fPrevState' = fPrevState
                /\ fCmdBuffer # <<>>
                /\ back(fCmdBuffer).type = kDrawBatch_CmdType
            appendedOne ==
                /\ Len(fCmdBuffer') > Len(fCmdBuffer)
                /\ Cardinality(Positions(fCmdBuffer', kDrawBatch_CmdType))
                      = Cardinality(Positions(fCmdBuffer, kDrawBatch_CmdType)) + 1
                /\ back(fCmdBuffer').type = kDrawBatch_CmdType
                /\ fDrawBatch' = Len(fCmdBuffer')
                /\ lastOp'.ret = fDrawBatch'
        IN  IF ~tailIsBatch \/ fDrawBatch = NULL
            THEN appendedOne
            ELSE IF lastOp'.combinable
                 THEN /\ Len(fCmdBuffer') = Len(fCmdBuffer)
                      /\ fDrawBatch' = fDrawBatch
                      /\ fDrawBatch = Len(fCmdBuffer)
                      /\ lastOp'.ret = fDrawBatch
                 ELSE appendedOne
      ]_vars

C7_Witness ==
    /\ Recorded("recordDrawBatch")
    /\ lastOp.combinable
    /\ fDrawBatch = Len(fCmdBuffer)
    /\ back(fCmdBuffer).fBatch.combined = 2
    /\ lastOp.ret = fDrawBatch

\* C8: a recordDrawPaths request is folded into the tail only if the tail is
\* a DrawPaths record of the same path range, index type, transform type and
\* stencil settings, the fill is winding, the draw does not blend and its
\* index bytes and transform values start where the tail's end; otherwise a
\* new DrawPaths record with the request's count and pool pointers is
\* appended.
C8_FoldOnlyWhenAllHold ==
    [][ Recorded_("recordDrawPaths") =>
        LET req == lastOp'
            allHold ==
                /\ fPrevState' = fPrevState
                /\ fCmdBuffer # <<>>
                /\ back(fCmdBuffer).type = kDrawPaths_CmdType
                /\ back(fCmdBuffer).pathRange = req.pathRange
                /\ back(fCmdBuffer).fIndexType = req.indexType
                /\ back(fCmdBuffer).fTransformType = req.transformType
                /\ back(fCmdBuffer).fStencilSettings = req.stencil
                /\ req.stencil.passOp # kInvert_StencilOp
                /\ ~req.blend
                /\ back(fCmdBuffer).fIndices
                      + back(fCmdBuffer).fCount * PathIndexSizeInBytes(req.indexType)
                      = req.savedIndices
                /\ back(fCmdBuffer).fTransforms
                      + back(fCmdBuffer).fCount * PathTransformSize(req.transformType)
                      = req.savedTransforms
            folded ==
                /\ Len(fCmdBuffer') = Len(fCmdBuffer)
                /\ back(fCmdBuffer').fCount = back(fCmdBuffer).fCount + req.count
            appended ==
                /\ Len(fCmdBuffer') > Len(fCmdBuffer)
                /\ back(fCmdBuffer').type = kDrawPaths_CmdType
                /\ back(fCmdBuffer').fCount = req.count
                /\ back(fCmdBuffer').fIndices = req.savedIndices
                /\ back(fCmdBuffer').fTransforms = req.savedTransforms
                /\ Cardinality(Positions(fCmdBuffer', kDrawPaths_CmdType))
                      = Cardinality(Positions(fCmdBuffer, kDrawPaths_CmdType)) + 1
        IN  IF allHold THEN folded \/ appended ELSE appended
      ]_vars

\* a request like the tail in everything, its indices right after the tail's
\* but its transforms not: a record of its own
C8_Witness ==
    /\ Recorded("recordDrawPaths")
    /\ Len(fCmdBuffer) = 3
    /\ lastOp.ret = 3
    /\ lastOp.stencil.passOp = kIncClamp_StencilOp
    /\ LET previous == fCmdBuffer[2] IN
       /\ previous.type = kDrawPaths_CmdType
       /\ previous.pathRange = lastOp.pathRange
       /\ previous.fIndexType = lastOp.indexType
       /\ previous.fTransformType = lastOp.transformType
       /\ previous.fStencilSettings = lastOp.stencil
       /\ previous.fIndices + previous.fCount * PathIndexSizeInBytes(lastOp.indexType)
             = lastOp.savedIndices
       /\ previous.fTransforms
             + previous.fCount * PathTransformSize(lastOp.transformType)
             # lastOp.savedTransforms

\* C9: recordDiscard stores a Clear record of the reserved color, and flush
\* makes exactly one call for every Clear record: discard for one of the
\* reserved color, clear with the record's rect, color and flag for any other.
C9_DiscardNeverClears ==
    /\ Recorded("recordDiscard")
          => /\ back(fCmdBuffer).type = kClear_CmdType
             /\ back(fCmdBuffer).fColor = GrColor_ILLEGAL
    /\ Flushed =>
          \A i \in Positions(fCmdBuffer, kClear_CmdType) :
              /\ Len(CallsFor(i)) = 1
              /\ CallsFor(i)[1].rec = fCmdBuffer[i]
              /\ CallsFor(i)[1].call =
                    IF fCmdBuffer[i].fColor = GrColor_ILLEGAL THEN "discard" ELSE "clear"

C9_Witness ==
    /\ Flushed
    /\ \E k \in 1..Len(gpuCalls) :
          /\ gpuCalls[k].call = "discard"
          /\ gpuCalls[k].rec.fColor = GrColor_ILLEGAL
    /\ Len(fCmdBuffer) = 3

\* C10: every Draw, DrawPath, DrawPaths and DrawBatch record has a state
\* record before it in the buffer, and whenever flush executes or dispatches
\* one, the current state is the nearest state record before it, never NULL.
C10_DrawsHaveAnActiveState ==
    /\ \A i \in 1..Len(fCmdBuffer) :
          fCmdBuffer[i].type \in DrawFamily \ {kStencilPath_CmdType}
              => \E j \in 1..(i - 1) : fCmdBuffer[j].type = kSetState_CmdType
    /\ \A k \in 1..Len(gpuCalls) :
          gpuCalls[k].call \in {"draw", "drawPath", "drawPaths", "generateGeometry",
                                "flushNext"}
              => /\ gpuCalls[k].state # NULL
                 /\ gpuCalls[k].state < gpuCalls[k].cmd
                 /\ fCmdBuffer[gpuCalls[k].state].type = kSetState_CmdType
                 /\ \A j \in (gpuCalls[k].state + 1)..(gpuCalls[k].cmd - 1) :
                       fCmdBuffer[j].type # kSetState_CmdType

C10_Witness ==
    /\ Flushed
    /\ useTextBlobs
    /\ \E k \in 1..Len(gpuCalls) :
          gpuCalls[k].call = "generateGeometry" /\ gpuCalls[k].state = 1
    /\ \E k \in 1..Len(gpuCalls) :
          gpuCalls[k].call = "drawPaths" /\ gpuCalls[k].state = 3

----------------------------------------------------------------------------
(* What flush leaves behind. *)

\* the calls of a flush: who made each, which call, for which record
CallTrace(calls) ==
    [k \in 1..Len(calls) |-> <<calls[k].pass, calls[k].call, calls[k].cmd>>]

\* C11 as stated: after a flush the buffer holds none of the records it
\* executed, and a flush right after a flush makes no call.
C11_NoRecordSurvivesFlush ==
    [][ lastOp'.op = "flush"
        => /\ fCmdBuffer' = <<>>
           /\ lastOp.op = "flush" => gpuCalls' = <<>>
      ]_vars

\* C11, amended: a flush removes no record (the buffer holds the same kinds
\* of records in the same order after it), and a flush right after a flush
\* replays them: it makes the same calls, for the same records, in the same
\* order as the first.  Only reset empties the buffer.
C11_FlushKeepsRecords ==
    [][ lastOp'.op = "flush"
        => /\ Len(fCmdBuffer') = Len(fCmdBuffer)
           /\ \A i \in 1..Len(fCmdBuffer) : fCmdBuffer'[i].type = fCmdBuffer[i].type
           /\ fCmdBuffer # <<>> => gpuCalls' # <<>>
           /\ lastOp.op = "flush" => CallTrace(gpuCalls') = CallTrace(gpuCalls)
      ]_vars

\* a second flush of a state and a batch: the batch already has the number
\* of draws the first flush gave it
C11_Witness ==
    /\ Flushed
    /\ useTextBlobs
    /\ Len(fCmdBuffer) = 2
    /\ fCmdBuffer[2].type = kDrawBatch_CmdType
    /\ \E k \in 1..Len(gpuCalls) :
          /\ gpuCalls[k].call = "generateGeometry"
          /\ gpuCalls[k].rec.fBatch.fNumberOfDraws = numberOfDraws(fCmdBuffer[2].fBatch)
    /\ \E k \in 1..Len(gpuCalls) : gpuCalls[k].call = "flushNext"

----------------------------------------------------------------------------
(* recordStencilPath *)

\* C12 as stated: recordStencilPath resolves the active state first, so that
\* every StencilPath record has a state record before it in the buffer.
C12_StencilPathHasState ==
    \A i \in Positions(fCmdBuffer, kStencilPath_CmdType) :
        \E j \in 1..(i - 1) : fCmdBuffer[j].type = kSetState_CmdType

\* C12, amended: recordStencilPath resolves no state: it always appends
\* exactly one StencilPath record and returns it (never no command), builds
\* and keeps no state record and leaves the active state and the tracked
\* batch as they were, so a StencilPath record may have no state record
\* before it; flush makes one stencilPath call for every StencilPath
\* record, from the record's own fields, whatever the current state is.
C12_StencilPathAppendsOnly ==
    /\ [](Flushed =>
            \A i \in Positions(fCmdBuffer, kStencilPath_CmdType) :
                /\ Len(CallsFor(i)) = 1
                /\ CallsFor(i)[1].call = "stencilPath"
                /\ CallsFor(i)[1].rec = fCmdBuffer[i])
    /\ [][ lastOp'.op = "recordStencilPath"
           => /\ ~lastOp'.skipped
              /\ lastOp'.ret = Len(fCmdBuffer) + 1
              /\ Len(fCmdBuffer') = Len(fCmdBuffer) + 1
              /\ pop_back(fCmdBuffer') = fCmdBuffer
              /\ back(fCmdBuffer').type = kStencilPath_CmdType
              /\ fPrevState' = fPrevState
              /\ fDrawBatch' = fDrawBatch
         ]_vars

\* a StencilPath record at the head of the buffer, executed by flush with no
\* current state
C12_Witness ==
    /\ Flushed
    /\ fCmdBuffer[1].type = kStencilPath_CmdType
    /\ Len(fCmdBuffer) = 3
    /\ \E k \in 1..Len(gpuCalls) :
          /\ gpuCalls[k].call = "stencilPath"
          /\ gpuCalls[k].cmd = 1
          /\ gpuCalls[k].state = NULL

----------------------------------------------------------------------------
(* The pass of flush that generates the geometry of the batches. *)

\* the calls that go to the GrGpu
BackendCalls ==
    {"draw", "drawPath", "drawPaths", "stencilPath", "clear", "clearStencilClip",
     "discard", "copySurface", "buildProgramDesc", "addGpuTraceMarker",
     "removeGpuTraceMarker"}

\* C13 as stated: the pass before the main pass makes no call on the GrGpu.
C13_GenPassMakesNoBackendCall ==
    \A k \in 1..Len(gpuCalls) :
        gpuCalls[k].pass = "gen" => gpuCalls[k].call \notin BackendCalls

\* C13, amended: in the build with the pass, the pass comes before every
\* other call of the flush and handles the DrawBatch records and the state
\* records with a primitive, in buffer order, and no other record: for a
\* DrawBatch record it generates the geometry under the nearest state
\* record before it and stores the batch's number of draws; for a state
\* record with a primitive it has the GrGpu build the program description,
\* which the main pass builds once more.  It makes no other call on the
\* GrGpu.  The other build has no such pass.
C13_GenPassBuildsOnlyPrograms ==
    Flushed =>
        LET gen == CallsOfPass("gen") IN
        /\ ~useTextBlobs => gen = <<>>
        /\ SubSeq(gpuCalls, 1, Len(gen)) = gen
        /\ \A k \in 1..(Len(gen) - 1) : gen[k].cmd < gen[k + 1].cmd
        /\ useTextBlobs =>
              {gen[k].cmd : k \in 1..Len(gen)}
                 = {i \in 1..Len(fCmdBuffer) :
                       \/ fCmdBuffer[i].type = kDrawBatch_CmdType
                       \/ /\ fCmdBuffer[i].type = kSetState_CmdType
                          /\ fCmdBuffer[i].fPrimitiveProcessor # NoPrim}
        /\ \A k \in 1..Len(gen) :
              LET i == gen[k].cmd IN
              IF fCmdBuffer[i].type = kDrawBatch_CmdType
              THEN /\ gen[k].call = "generateGeometry"
                   /\ gen[k].state \in Positions(fCmdBuffer, kSetState_CmdType)
                   /\ \A j \in (gen[k].state + 1)..(i - 1) :
                         fCmdBuffer[j].type # kSetState_CmdType
                   /\ fCmdBuffer[i].fBatch.fNumberOfDraws
                         = numberOfDraws(fCmdBuffer[i].fBatch)
              ELSE /\ gen[k].call = "buildProgramDesc"
                   /\ Len(CallsFor(i)) = 1
                   /\ CallsFor(i)[1].call = "buildProgramDesc"

\* a flush with the pass of a buffer with a path draw and a batch
C13_Witness ==
    /\ Flushed
    /\ useTextBlobs
    /\ \E k \in 1..Len(gpuCalls) :
          gpuCalls[k].pass = "gen" /\ gpuCalls[k].call = "buildProgramDesc"
    /\ \E k \in 1..Len(gpuCalls) :
          gpuCalls[k].pass = "gen" /\ gpuCalls[k].call = "generateGeometry"
    /\ \E k \in 1..Len(gpuCalls) : gpuCalls[k].call = "drawPath"

----------------------------------------------------------------------------
(* recordClear, recordClearStencilClip, recordDiscard, recordCopySurface *)

\* the kind of record each of the operations appends
AppendedType(op) ==
    CASE op = "recordClear"            -> kClear_CmdType
      [] op = "recordDiscard"          -> kClear_CmdType
      [] op = "recordClearStencilClip" -> kClearStencilClip_CmdType
      [] op = "recordCopySurface"      -> kCopySurface_CmdType

\* C14: recordClear, recordClearStencilClip, recordDiscard and
\* recordCopySurface append exactly one record of their kind at the end of
\* the buffer and return it, whatever the tail is, and leave the records
\* already there, the active state pointer and the tracked batch as they
\* were.
C14_AppendsUnconditionally ==
    [][ lastOp'.op \in {"recordClear", "recordClearStencilClip", "recordDiscard",
                        "recordCopySurface"}
        => /\ ~lastOp'.skipped
           /\ Len(fCmdBuffer') = Len(fCmdBuffer) + 1
           /\ pop_back(fCmdBuffer') = fCmdBuffer
           /\ back(fCmdBuffer').type = AppendedType(lastOp'.op)
           /\ lastOp'.ret = Len(fCmdBuffer')
           /\ fPrevState' = fPrevState
           /\ fDrawBatch' = fDrawBatch
      ]_vars

\* a clear right after an equal clear, with an active state and a tracked
\* batch
C14_Witness ==
    /\ Recorded("recordClear")
    /\ Len(fCmdBuffer) = 4
    /\ fCmdBuffer[3] = fCmdBuffer[4]
    /\ fCmdBuffer[4].type = kClear_CmdType
    /\ fPrevState = 1
    /\ fDrawBatch = 2

\* C15: a recordClear without a rect appends a Clear record whose rect is
\* left 0, top 0, right the width and bottom the height of the render
\* target; with a rect, the record stores that rect.
C15_ClearRectOfTarget ==
    Recorded("recordClear") =>
        LET clr == back(fCmdBuffer) IN
        /\ clr.type = kClear_CmdType
        /\ clr.fColor # GrColor_ILLEGAL
        /\ IF lastOp.rect = NullRect
           THEN /\ clr.fRect.fLeft = 0
                /\ clr.fRect.fTop = 0
                /\ clr.fRect.fRight = clr.renderTarget.width
                /\ clr.fRect.fBottom = clr.renderTarget.height
           ELSE clr.fRect = lastOp.rect

\* a clear of the whole 2 by 3 target
C15_Witness ==
    /\ Recorded("recordClear")
    /\ lastOp.rect = NullRect
    /\ back(fCmdBuffer).fRect = [fLeft |-> 0, fTop |-> 0, fRight |-> 2, fBottom |-> 3]
    /\ Len(fCmdBuffer) = 3

----------------------------------------------------------------------------
(* The state of a draw at record time and at flush time. *)

DrawRecords ==
    {i \in 1..Len(fCmdBuffer) :
        fCmdBuffer[i].type \in {kDrawPath_CmdType, kDrawPaths_CmdType, kDrawBatch_CmdType}}

\* the state record flush has as current state when it reaches record i
NearestState(i) ==
    LET before == {j \in 1..(i - 1) : fCmdBuffer[j].type = kSetState_CmdType}
    IN  IF before = {} THEN NULL ELSE CHOOSE j \in before : \A h \in before : h <= j

\* C16: for every DrawPath, DrawPaths and DrawBatch record, the active state
\* (fPrevState) when the record was appended or last absorbed a request is
\* a state record, the nearest one before the record in the buffer, and it
\* is the state every pass of flush has as current state when it executes
\* or dispatches the record.
C16_RecordAndFlushStateCoincide ==
    /\ Len(stateAt) = Len(fCmdBuffer)
    /\ \A i \in DrawRecords :
          /\ stateAt[i] # NULL
          /\ stateAt[i] = NearestState(i)
    /\ Flushed =>
          /\ \A i \in DrawRecords :
                \E k \in 1..Len(gpuCalls) :
                    gpuCalls[k].pass = "main" /\ gpuCalls[k].cmd = i
          /\ \A k \in 1..Len(gpuCalls) :
                gpuCalls[k].cmd \in DrawRecords
                    => gpuCalls[k].state = stateAt[gpuCalls[k].cmd]

\* a path draw, a second path draw under the state of the first and a clear;
\* flush draws both under the one state
C16_Witness ==
    /\ Flushed
    /\ Len(fCmdBuffer) = 4
    /\ fCmdBuffer[2].type = kDrawPath_CmdType
    /\ fCmdBuffer[3].type = kDrawPaths_CmdType
    /\ fCmdBuffer[4].type = kClear_CmdType
    /\ stateAt[2] = 1
    /\ stateAt[3] = 1
    /\ \E k \in 1..Len(gpuCalls) :
          /\ gpuCalls[k].call = "drawPaths"
          /\ gpuCalls[k].cmd = 3
          /\ gpuCalls[k].state = 1

----------------------------------------------------------------------------
(* Trace markers during flush. *)

\* where in the calls of the flush the call `name` for record i is made
CallIndices(name, i) ==
    {k \in 1..Len(gpuCalls) : gpuCalls[k].call = name /\ gpuCalls[k].cmd = i}

\* C17: during the main pass, for every traced record, of any kind, the
\* marker is added once before the record is handled and removed once after
\* it, with nothing but the calls made for that record in between; an
\* untraced record causes no marker call; so the marker calls alternate
\* (added, removed, added, ...), none is left open, and there are as many
\* additions, and as many removals, as traced records.  The pass before the
\* main pass uses no marker.
C17_MarkersBracketTracedRecords ==
    /\ traced \subseteq 1..Len(fCmdBuffer)
    /\ Flushed =>
          LET tr == CallsOfPass("trace") IN
          /\ Len(tr) = 2 * Cardinality(traced)
          /\ \A m \in 1..Len(tr) :
                tr[m].call = IF m % 2 = 1 THEN "addGpuTraceMarker"
                                          ELSE "removeGpuTraceMarker"
          /\ \A m \in 1..Len(tr) :
                /\ m % 2 = 1 => tr[m].cmd = tr[m + 1].cmd
                /\ (m % 2 = 0 /\ m < Len(tr)) => tr[m].cmd < tr[m + 1].cmd
          /\ \A i \in 1..Len(fCmdBuffer) :
                LET adds    == CallIndices("addGpuTraceMarker", i)
                    removes == CallIndices("removeGpuTraceMarker", i)
                IN  IF i \in traced
                    THEN /\ Cardinality(adds) = 1
                         /\ Cardinality(removes) = 1
                         /\ \A a \in adds, r \in removes :
                               /\ a < r
                               /\ \A k \in (a + 1)..(r - 1) :
                                     /\ gpuCalls[k].pass = "main"
                                     /\ gpuCalls[k].cmd = i
                               /\ \A k \in 1..Len(gpuCalls) :
                                     (gpuCalls[k].pass = "main" /\ gpuCalls[k].cmd = i)
                                         => (a < k /\ k < r)
                               /\ \A k \in 1..a : gpuCalls[k].pass # "post"
                               /\ \A k \in a..Len(gpuCalls) :
                                     gpuCalls[k].pass \notin {"gen", "pre"}
                    ELSE adds = {} /\ removes = {}

\* a flush of a traced state without a primitive, its traced batch, an
\* untraced clear and a traced discard
C17_Witness ==
    /\ Flushed
    /\ Len(fCmdBuffer) = 4
    /\ traced = {1, 2, 4}
    /\ fCmdBuffer[1].fPrimitiveProcessor = NoPrim
    /\ fCmdBuffer[2].type = kDrawBatch_CmdType
    /\ fCmdBuffer[3].type = kClear_CmdType
    /\ Len(CallsOfPass("trace")) = 6

----------------------------------------------------------------------------
(* What flush changes. *)

ActiveConfiguration ==
    [primProc |-> fCmdBuffer[fPrevState].fPrimitiveProcessor,
     info |-> fCmdBuffer[fPrevState].pipeline.id]

----------------------------------------------------------------------------
(* The pointers of the recorder. *)

\* C19: whenever the tail of the buffer is a DrawBatch record, the tracked
\* batch is that record (so the assertion of recordDrawBatch holds and a
\* batch is only ever combined with the tail); a tracked batch is always
\* a DrawBatch record of the buffer; after reset there is neither a tracked
\* batch nor an active state.
C19_TrackedBatchIsTail ==
    /\ (fCmdBuffer # <<>> /\ back(fCmdBuffer).type = kDrawBatch_CmdType)
          => (fDrawBatch # NULL /\ fDrawBatch = Len(fCmdBuffer))
    /\ fDrawBatch # NULL
          => /\ fDrawBatch <= Len(fCmdBuffer)
             /\ fCmdBuffer[fDrawBatch].type = kDrawBatch_CmdType
    /\ (lastOp.op = "recordDrawBatch" /\ lastOp.absorbed)
          => /\ lastOp.ret = Len(fCmdBuffer)
             /\ fDrawBatch = Len(fCmdBuffer)
    /\ lastOp.op = "reset" => (fDrawBatch = NULL /\ fPrevState = NULL)

\* a second DrawBatch record, under a state of its own: the tracked batch is
\* the new tail, not the earlier record
C19_Witness ==
    /\ Recorded("recordDrawBatch")
    /\ Len(fCmdBuffer) = 4
    /\ fCmdBuffer[2].type = kDrawBatch_CmdType
    /\ fCmdBuffer[4].type = kDrawBatch_CmdType
    /\ fDrawBatch = 4

\* the last state record of the buffer, NULL when there is none
LastState == NearestState(Len(fCmdBuffer) + 1)

\* C20: a draw request is absorbed into the tail only when it keeps no state
\* record of its own; a request that changes the active state appends a
\* state record and right after it a new draw record; so every state
\* record of the buffer is followed at once by a DrawPath, DrawPaths or
\* DrawBatch record, and the active state pointer is the last state record
\* of the buffer (NULL when the buffer has none).
C20_StateThenDraw ==
    /\ [](/\ \A i \in Positions(fCmdBuffer, kSetState_CmdType) : (i + 1) \in DrawRecords
          /\ fPrevState = LastState)
    /\ [][ /\ lastOp'.absorbed
               => /\ fPrevState' = fPrevState
                  /\ Len(fCmdBuffer') = Len(fCmdBuffer)
                  /\ Positions(fCmdBuffer', kSetState_CmdType)
                        = Positions(fCmdBuffer, kSetState_CmdType)
           /\ (fPrevState' # fPrevState /\ lastOp'.op # "reset")
               => /\ IsDrawRequest(lastOp')
                  /\ ~lastOp'.absorbed
                  /\ Len(fCmdBuffer') = Len(fCmdBuffer) + 2
                  /\ SubSeq(fCmdBuffer', 1, Len(fCmdBuffer)) = fCmdBuffer
                  /\ fCmdBuffer'[Len(fCmdBuffer) + 1].type = kSetState_CmdType
                  /\ fPrevState' = Len(fCmdBuffer) + 1
                  /\ lastOp'.ret = Len(fCmdBuffer) + 2
         ]_vars

\* a path draw that absorbed a request, then a batch under a state of its
\* own
C20_Witness ==
    /\ Recorded("recordDrawBatch")
    /\ Len(fCmdBuffer) = 4
    /\ fCmdBuffer[2].type = kDrawPaths_CmdType
    /\ fCmdBuffer[2].fCount = 3
    /\ fCmdBuffer[3].type = kSetState_CmdType
    /\ fPrevState = 3
    /\ lastOp.ret = 4

====
